---- MODULE Spec2Model ----
(***************************************************************************)
(* Kernel services of the WIPI C native-service layer (wie_impl_wipi_c):   *)
(* the error-code codec (error.rs) and the kernel method table with its    *)
(* timer, system-property and resource operations (impl/kernel.rs).        *)
(*                                                                         *)
(* Guest memory is an array of bytes.  A 32-bit word is held either as the *)
(* number it denotes (arguments, below 2^31) or, where its bit pattern     *)
(* matters, as its four little-endian bytes.  A 64-bit duration is held as *)
(* its two 32-bit halves [hi, lo].                                         *)
(***************************************************************************)
EXTENDS Integers, Sequences, FiniteSets, TLC

VARIABLES
    mem,          \* guest memory: Addr -> Byte
    now,          \* the backend clock, a 64-bit instant [hi, lo]
    tasks,        \* the tasks spawned by set_timer, in spawn order
    invocations,  \* the guest callbacks invoked so far, in order
    lastCall,     \* the last kernel call: operation, arguments, outcome
    conv,         \* the error-code conversion in progress
    table,        \* the kernel method table built by get_kernel_method_table
    reserved1     \* the method the table's caller supplied for ordinal 33

vars == <<mem, now, tasks, invocations, lastCall, conv, table, reserved1>>

(***************************************************************************)
(* Bounds of the model.                                                    *)
(***************************************************************************)
MemSize == 64
ErrMargin == 8

(***************************************************************************)
(* Words and bytes.                                                        *)
(***************************************************************************)
Byte == 0..255
Addr == 0..(MemSize - 1)
I32Min == (-2147483647) - 1
I32Max == 2147483647

\* The four little-endian bytes of a 32-bit value (two's complement).
LEBytes(v) ==
    << v % 256, (v \div 256) % 256, (v \div 65536) % 256, (v \div 16777216) % 256 >>

\* bytemuck::cast::<u32, i32>: the same bit pattern read as a signed value.
CastI32(w) ==
    w[1] + 256 * w[2] + 65536 * w[3]
      + 16777216 * (IF w[4] >= 128 THEN w[4] - 256 ELSE w[4])

\* bytemuck::cast::<i32, u32>: the bit pattern of a signed value.
CastWord(v) == LEBytes(v)

\* A word below 2^31 read from its four bytes.
WordOf(w) == w[1] + 256 * w[2] + 65536 * w[3] + 16777216 * w[4]

(***************************************************************************)
(* error.rs: WIPICErrorCode, a #[repr(i32)] enum held as its discriminant. *)
(***************************************************************************)
SUCCESS == 0
INVALID == -9
NOTSUP == -16
SHORTBUF == -18
NOSERVICE == -88
UnknownValue == I32Min

\* The discriminants the enum declares.
WIPICErrorCode == (NOSERVICE..SUCCESS) \cup {UnknownValue}

\* impl From<WIPICErrorCode> for i32: `value as i32`.
i32_from(value) == value

\* impl From<i32> for WIPICErrorCode.  The transmute keeps the value.
WIPICErrorCode_from(value) ==
    IF value >= SUCCESS /\ value <= NOSERVICE THEN value ELSE UnknownValue

\* TypeConverter::to_rust
to_rust(raw) == WIPICErrorCode_from(CastI32(raw))

\* TypeConverter::from_rust
from_rust(rust) == CastWord(i32_from(rust))

(***************************************************************************)
(* Idle values of the state each specification leaves alone.               *)
(***************************************************************************)
ZeroTime == [hi |-> 0, lo |-> 0]
NoCall == [op |-> "none", args |-> << >>, ret |-> 0, fatal |-> FALSE]
NoConv == [pc |-> "idle", i |-> 0, raw |-> LEBytes(0), code |-> 0, back |-> 0, word |-> LEBytes(0)]
NoMem == << >>
NoMethod == "none"

(***************************************************************************)
(* Error-code conversion: an i32 and the word that carries it are          *)
(* converted to a WIPICErrorCode and back.                                 *)
(***************************************************************************)
ErrInputs == ((NOSERVICE - ErrMargin)..(SUCCESS + ErrMargin)) \cup {I32Min, I32Max}

ErrInit ==
    /\ conv \in { [pc |-> "input", i |-> v, raw |-> CastWord(v), code |-> 0,
                   back |-> 0, word |-> LEBytes(0)] : v \in ErrInputs }
    /\ mem = NoMem
    /\ now = ZeroTime
    /\ tasks = << >>
    /\ invocations = << >>
    /\ lastCall = NoCall
    /\ table = << >>
    /\ reserved1 = NoMethod

\* WIPICErrorCode::from(i)
ConvFrom ==
    /\ conv.pc = "input"
    /\ conv' = [conv EXCEPT !.pc = "decoded", !.code = WIPICErrorCode_from(conv.i)]
    /\ UNCHANGED <<mem, now, tasks, invocations, lastCall, table, reserved1>>

\* WIPICErrorCode::to_rust(context, raw)
ConvToRust ==
    /\ conv.pc = "input"
    /\ conv' = [conv EXCEPT !.pc = "decoded", !.code = to_rust(conv.raw)]
    /\ UNCHANGED <<mem, now, tasks, invocations, lastCall, table, reserved1>>

\* i32::from(code) and WIPICErrorCode::from_rust(context, code)
ConvBack ==
    /\ conv.pc = "decoded"
    /\ conv' = [conv EXCEPT !.pc = "done", !.back = i32_from(conv.code),
                            !.word = from_rust(conv.code)]
    /\ UNCHANGED <<mem, now, tasks, invocations, lastCall, table, reserved1>>

ErrNext == ConvFrom \/ ConvToRust \/ ConvBack

ErrSpec == ErrInit /\ [][ErrNext]_vars

\* C1 (as claimed; the code violates it): every i in [-88, 0] converted to an ErrorCode and back yields i, and
\* every i outside that range converts to UnknownValue.
C1_RoundTrip ==
    conv.pc = "done" =>
        /\ conv.i \in (-88)..0 => (conv.back = conv.i /\ conv.word = conv.raw)
        /\ conv.i \notin (-88)..0 => conv.code = UnknownValue

(***************************************************************************)
(* kernel.rs: the kernel method table.  A method body is a record: a       *)
(* kernel function bound by into_body, or a stub made by gen_stub.         *)
(***************************************************************************)
MaxOrdinal == 64

\* What calling a method body yields: a fatal error with its message, or a
\* call of the bound function.
Unimplemented(id, name) ==
    [fatal |-> TRUE, prefix |-> "Unimplemented kernel", id |-> id, sep |-> ": ",
     name |-> name]
NoMessage == [fatal |-> FALSE, prefix |-> "", id |-> -1, sep |-> "", name |-> ""]

\* gen_stub(id, name): a body that always returns Err("Unimplemented kernel{id}: {name}").
gen_stub_lost_id(id, name) ==
    [kind |-> "stub", fn |-> "gen_stub", error |-> Unimplemented(0, name)]

gen_stub(id, name) ==
    [kind |-> "stub", fn |-> "gen_stub", error |-> Unimplemented(id, name)]

\* f.into_body(): the body that decodes the words and calls f.
into_body(f) == [kind |-> "method", fn |-> f, error |-> NoMessage]

\* The vec! of lines 244 to 310.  The entries of lines 279 to 309 are
\* commented out.
KernelMethods(reserved1_) ==
    << into_body("printk"),
       gen_stub(1, "MC_knlSprintk"),
       gen_stub(2, "MC_knlGetExecNames"),
       gen_stub(3, "MC_knlExecute"),
       gen_stub(4, "MC_knlMExecute"),
       gen_stub(5, "MC_knlLoad"),
       gen_stub(6, "MC_knlMLoad"),
       gen_stub(7, "MC_knlExit"),
       gen_stub(8, "MC_knlProgramStop"),
       gen_stub(9, "MC_knlGetCurProgramID"),
       gen_stub(10, "MC_knlGetParentProgramID"),
       gen_stub(11, "MC_knlGetAppManagerID"),
       gen_stub(12, "MC_knlGetProgramInfo"),
       gen_stub(13, "MC_knlGetAccessLevel"),
       gen_stub(14, "MC_knlGetProgramName"),
       gen_stub(15, "MC_knlCreateSharedBuf"),
       gen_stub(16, "MC_knlDestroySharedBuf"),
       gen_stub(17, "MC_knlGetSharedBuf"),
       gen_stub(18, "MC_knlGetSharedBufSize"),
       gen_stub(19, "MC_knlResizeSharedBuf"),
       into_body("alloc"),
       into_body("calloc"),
       into_body("free"),
       into_body("get_total_memory"),
       into_body("get_free_memory"),
       into_body("def_timer"),
       into_body("set_timer"),
       into_body("unset_timer"),
       into_body("current_time"),
       into_body("get_system_property"),
       gen_stub(30, "MC_knlSetSystemProperty"),
       into_body("get_resource_id"),
       into_body("get_resource"),
       into_body(reserved1_) >>

\* The table with the two allocators exchanged.
get_kernel_method_table_swapped(reserved1_) ==
    [k \in 1..34 |->
        CASE k = 21 -> KernelMethods(reserved1_)[22]
          [] k = 22 -> KernelMethods(reserved1_)[21]
          [] OTHER -> KernelMethods(reserved1_)[k]]

\* The table with the first reserved stub (line 279) compiled in.
get_kernel_method_table_with_reserved2(reserved1_) ==
    Append(KernelMethods(reserved1_), gen_stub(34, "MC_knlReserved2"))

\* get_kernel_method_table(reserved1)
get_kernel_method_table(reserved1_) == KernelMethods(reserved1_)

\* The methods a caller may supply for ordinal 33.
Extensions == {"oem_reserved1_a", "oem_reserved1_b", "oem_reserved1_c"}

\* The argument words of a call.
ArgWords == { << >>, <<0>>, <<1, 2>>, <<7, 7, 7, 7>> }

\* The entry at ordinal k of a table (a Vec, indexed from 0).
HasEntry(t, k) == k >= 0 /\ k < Len(t)
EntryAt(t, k) == t[k + 1]

TableInit ==
    /\ table = << >>
    /\ reserved1 = NoMethod
    /\ lastCall = NoCall
    /\ mem = NoMem
    /\ now = ZeroTime
    /\ tasks = << >>
    /\ invocations = << >>
    /\ conv = NoConv

\* The embedding builds the table, supplying the method of ordinal 33.
BuildTable(m) ==
    /\ table' = get_kernel_method_table(m)
    /\ reserved1' = m
    /\ lastCall' = NoCall
    /\ UNCHANGED <<mem, now, tasks, invocations, conv>>

\* The interpreter looks ordinal k up and calls the body it finds.
InvokeOrdinal(k, args) ==
    /\ table # << >>
    /\ lastCall' =
         IF HasEntry(table, k)
         THEN [op |-> "invoke", args |-> <<k>> \o args, ret |-> 0,
               fatal |-> EntryAt(table, k).error.fatal, found |-> TRUE,
               fn |-> EntryAt(table, k).fn, error |-> EntryAt(table, k).error]
         ELSE [op |-> "invoke", args |-> <<k>> \o args, ret |-> 0,
               fatal |-> FALSE, found |-> FALSE, fn |-> "", error |-> NoMessage]
    /\ UNCHANGED <<mem, now, tasks, invocations, conv, table, reserved1>>

TableNext ==
    \/ \E m \in Extensions : BuildTable(m)
    \/ \E k \in 0..MaxOrdinal, args \in ArgWords : InvokeOrdinal(k, args)

TableSpec == TableInit /\ [][TableNext]_vars

Invoked(k) == lastCall.op = "invoke" /\ lastCall.args[1] = k

\* C5: calling the entry of an unimplemented ordinal k (1 to 19, and 30) with
\* any argument words fails fatally, and the message carries the number k of
\* the entry's position and the operation's symbolic name.
C5_StubFailsWithOrdinal ==
    \A k \in (1..19) \cup {30} :
        Invoked(k) =>
            /\ lastCall.found
            /\ lastCall.fatal
            /\ lastCall.error.prefix = "Unimplemented kernel"
            /\ lastCall.error.id = k
            /\ lastCall.error.name # ""
            /\ k = 1 => lastCall.error.name = "MC_knlSprintk"
            /\ k = 30 => lastCall.error.name = "MC_knlSetSystemProperty"

C5_Witness ==
    /\ Invoked(1)
    /\ Len(lastCall.args) = 3
    /\ lastCall.fatal
    /\ lastCall.error.name = "MC_knlSprintk"

\* The operation the platform fixes at each implemented ordinal.
FixedOrdinals ==
    [k \in {0} \cup (20..29) \cup {31, 32} |->
        CASE k = 0 -> "printk"
          [] k = 20 -> "alloc"
          [] k = 21 -> "calloc"
          [] k = 22 -> "free"
          [] k = 23 -> "get_total_memory"
          [] k = 24 -> "get_free_memory"
          [] k = 25 -> "def_timer"
          [] k = 26 -> "set_timer"
          [] k = 27 -> "unset_timer"
          [] k = 28 -> "current_time"
          [] k = 29 -> "get_system_property"
          [] k = 31 -> "get_resource_id"
          [] k = 32 -> "get_resource"]

\* C6: whatever extension the caller supplies, the table holds each operation
\* at its fixed ordinal, stubs at 1 to 19 and 30, and the supplied method at
\* 33; a different extension changes position 33 only.
C6_FixedLayout ==
    table # << >> =>
        /\ \A k \in DOMAIN FixedOrdinals :
              /\ HasEntry(table, k)
              /\ EntryAt(table, k).kind = "method"
              /\ EntryAt(table, k).fn = FixedOrdinals[k]
        /\ \A k \in (1..19) \cup {30} :
              HasEntry(table, k) /\ EntryAt(table, k).kind = "stub"
        /\ HasEntry(table, 33)
        /\ EntryAt(table, 33) = [kind |-> "method", fn |-> reserved1, error |-> NoMessage]
        /\ \A m \in Extensions, k \in 0..32 :
              EntryAt(get_kernel_method_table(m), k) = EntryAt(table, k)

C6_Witness ==
    /\ table # << >>
    /\ reserved1 = "oem_reserved1_b"
    /\ Invoked(33)
    /\ lastCall.fn = "oem_reserved1_b"

MaxBufSize == 12

\* The fixed properties of lines 45 to 78 whose value is a literal: the name
\* and the value of each.
LiteralProperties == <<
    \* "ESN" => "01234567891"
    [name |-> <<69, 83, 78>>,
     value |-> <<48, 49, 50, 51, 52, 53, 54, 55, 56, 57, 49>>],
    \* "NID" => "65535"
    [name |-> <<78, 73, 68>>,
     value |-> <<54, 53, 53, 51, 53>>],
    \* "SID" => "2236"
    [name |-> <<83, 73, 68>>,
     value |-> <<50, 50, 51, 54>>],
    \* "BASEID" => ""
    [name |-> <<66, 65, 83, 69, 73, 68>>,
     value |-> << >>],
    \* "BASELAT" => "37.358794639155875"
    [name |-> <<66, 65, 83, 69, 76, 65, 84>>,
     value |-> <<51, 55, 46, 51, 53, 56, 55, 57, 52, 54, 51, 57, 49, 53, 53, 56, 55, 53>>],
    \* "BASELONG" => "127.11491625337496"
    [name |-> <<66, 65, 83, 69, 76, 79, 78, 71>>,
     value |-> <<49, 50, 55, 46, 49, 49, 52, 57, 49, 54, 50, 53, 51, 51, 55, 52, 57, 54>>],
    \* "CURRENTCH" => "779"
    [name |-> <<67, 85, 82, 82, 69, 78, 84, 67, 72>>,
     value |-> <<55, 55, 57>>],
    \* "PHONENUMBER" => "01612345678"
    [name |-> <<80, 72, 79, 78, 69, 78, 85, 77, 66, 69, 82>>,
     value |-> <<48, 49, 54, 49, 50, 51, 52, 53, 54, 55, 56>>],
    \* "RSSILEVEL" => "5"
    [name |-> <<82, 83, 83, 73, 76, 69, 86, 69, 76>>,
     value |-> <<53>>],
    \* "MAXRSSILEVEL" => "5"
    [name |-> <<77, 65, 88, 82, 83, 83, 73, 76, 69, 86, 69, 76>>,
     value |-> <<53>>],
    \* "BATTERYLEVEL" => "5"
    [name |-> <<66, 65, 84, 84, 69, 82, 89, 76, 69, 86, 69, 76>>,
     value |-> <<53>>],
    \* "MAXBATTLEVEL" => "5"
    [name |-> <<77, 65, 88, 66, 65, 84, 84, 76, 69, 86, 69, 76>>,
     value |-> <<53>>],
    \* "MAXSERIALNUM" => "0"
    [name |-> <<77, 65, 88, 83, 69, 82, 73, 65, 76, 78, 85, 77>>,
     value |-> <<48>>],
    \* "MAXSOCKETNUM" => "64"
    [name |-> <<77, 65, 88, 83, 79, 67, 75, 69, 84, 78, 85, 77>>,
     value |-> <<54, 52>>],
    \* "DNS" => "127.0.0.1"
    [name |-> <<68, 78, 83>>,
     value |-> <<49, 50, 55, 46, 48, 46, 48, 46, 49>>],
    \* "TIMEZONE" => "GMT+09:00"
    [name |-> <<84, 73, 77, 69, 90, 79, 78, 69>>,
     value |-> <<71, 77, 84, 43, 48, 57, 58, 48, 48>>],
    \* "PHONEMODEL" => "wie"
    [name |-> <<80, 72, 79, 78, 69, 77, 79, 68, 69, 76>>,
     value |-> <<119, 105, 101>>],
    \* "VIBRATORLEVEL" => "100"
    [name |-> <<86, 73, 66, 82, 65, 84, 79, 82, 76, 69, 86, 69, 76>>,
     value |-> <<49, 48, 48>>],
    \* "VOLUMELEVEL" => "100"
    [name |-> <<86, 79, 76, 85, 77, 69, 76, 69, 86, 69, 76>>,
     value |-> <<49, 48, 48>>],
    \* "ANNUN_CALL" => "0"
    [name |-> <<65, 78, 78, 85, 78, 95, 67, 65, 76, 76>>,
     value |-> <<48>>],
    \* "ANNUN_SMS" => "0"
    [name |-> <<65, 78, 78, 85, 78, 95, 83, 77, 83>>,
     value |-> <<48>>],
    \* "ANNUN_SILENT" => "0"
    [name |-> <<65, 78, 78, 85, 78, 95, 83, 73, 76, 69, 78, 84>>,
     value |-> <<48>>],
    \* "ANNUN_ALARM" => "0"
    [name |-> <<65, 78, 78, 85, 78, 95, 65, 76, 65, 82, 77>>,
     value |-> <<48>>],
    \* "ANNUN_SECURITY" => "0"
    [name |-> <<65, 78, 78, 85, 78, 95, 83, 69, 67, 85, 82, 73, 84, 89>>,
     value |-> <<48>>] >>

\* "MEDIADEVICES", and its supported_types: ["audio/MP3"]
MEDIADEVICES == <<77, 69, 68, 73, 65, 68, 69, 86, 73, 67, 69, 83>>
supported_types == << <<97, 117, 100, 105, 111, 47, 77, 80, 51>> >>
\* "KEYREPEAT"
KEYREPEAT == <<75, 69, 89, 82, 69, 80, 69, 65, 84>>
\* ","
Comma == <<44>>
\* Names the table does not hold: "UNKNOWNPROP", "esn", "".
UnknownNames == { <<85, 78, 75, 78, 79, 87, 78, 80, 82, 79, 80>>, <<101, 115, 110>>, << >> }
\* The value the documentation gives for "ESN": "01234567891"
ESN == <<69, 83, 78>>
ESNValue == <<48, 49, 50, 51, 52, 53, 54, 55, 56, 57, 49>>

\* [T]::join(sep)
RECURSIVE join(_, _)
join(strs, sep) ==
    IF Len(strs) = 0 THEN << >>
    ELSE IF Len(strs) = 1 THEN strs[1]
    ELSE strs[1] \o sep \o join(Tail(strs), sep)

\* Context::read_bytes / write_bytes: fail when the range leaves the arena.
InArena(addr, n) == addr >= 0 /\ addr + n <= MemSize

write_bytes(m, addr, bytes) ==
    IF InArena(addr, Len(bytes))
    THEN [ok |-> TRUE,
          mem |-> [a \in Addr |-> IF a >= addr /\ a < addr + Len(bytes)
                                  THEN bytes[a - addr + 1] ELSE m[a]]]
    ELSE [ok |-> FALSE, mem |-> m]

read_bytes(m, addr, n) ==
    IF InArena(addr, n)
    THEN [ok |-> TRUE, value |-> [i \in 1..n |-> m[addr + i - 1]]]
    ELSE [ok |-> FALSE, value |-> << >>]

\* wie_base::util::read_null_terminated_string: the bytes from addr up to the
\* first zero byte; fails when the arena ends before one is found.
read_null_terminated_string(m, addr) ==
    IF addr \in Addr /\ \E a \in addr..(MemSize - 1) : m[a] = 0
    THEN LET end == CHOOSE a \in addr..(MemSize - 1) :
                        m[a] = 0 /\ \A b \in addr..(a - 1) : m[b] # 0
         IN [ok |-> TRUE, value |-> [i \in 1..(end - addr) |-> m[addr + i - 1]]]
    ELSE [ok |-> FALSE, value |-> << >>]

\* wie_base::util::write_null_terminated_string: the bytes, then a zero byte.
write_null_terminated_string(m, addr, str) == write_bytes(m, addr, str \o <<0>>)

\* The outcome of a kernel method: a fatal error, or the returned value.  A
\* method may also have spawned a task.
Fatal(m) == [fatal |-> TRUE, ret |-> 0, mem |-> m, spawn |-> << >>]
Returned(v, m) == [fatal |-> FALSE, ret |-> v, mem |-> m, spawn |-> << >>]
Spawned(v, m, task) == [fatal |-> FALSE, ret |-> v, mem |-> m, spawn |-> <<task>>]

\* The match of lines 44 to 90: the value of the property, or the error code
\* an arm returns at once.
PropertyMatch(property_name) ==
    IF \E i \in 1..Len(LiteralProperties) : LiteralProperties[i].name = property_name
    THEN LET i == CHOOSE j \in 1..Len(LiteralProperties) :
                      LiteralProperties[j].name = property_name
         IN [return |-> FALSE, code |-> SUCCESS, result |-> LiteralProperties[i].value]
    ELSE IF property_name = MEDIADEVICES
    THEN IF Len(supported_types) = 0
         THEN [return |-> TRUE, code |-> NOTSUP, result |-> << >>]
         ELSE [return |-> FALSE, code |-> SUCCESS, result |-> join(supported_types, Comma)]
    ELSE IF property_name = KEYREPEAT
    THEN [return |-> TRUE, code |-> NOTSUP, result |-> << >>]
    ELSE [return |-> TRUE, code |-> INVALID, result |-> << >>]

\* get_system_property with the room for the terminator forgotten.
get_system_property_no_terminator(m, p_id, p_out, buf_size) ==
    LET property_name == read_null_terminated_string(m, p_id)
        match == PropertyMatch(property_name.value)
        written == write_null_terminated_string(m, p_out, match.result)
    IN  IF ~property_name.ok THEN Fatal(m)
        ELSE IF match.return THEN Returned(match.code, m)
        ELSE IF buf_size < Len(match.result) THEN Returned(SHORTBUF, m)
        ELSE IF ~written.ok THEN Fatal(m)
        ELSE Returned(SUCCESS, written.mem)

\* get_system_property(context, p_id, p_out, buf_size)
get_system_property(m, p_id, p_out, buf_size) ==
    LET property_name == read_null_terminated_string(m, p_id)
        match == PropertyMatch(property_name.value)
        written == write_null_terminated_string(m, p_out, match.result)
    IN  IF ~property_name.ok THEN Fatal(m)
        ELSE IF match.return THEN Returned(match.code, m)
        ELSE IF buf_size < Len(match.result) + 1 THEN Returned(SHORTBUF, m)
        ELSE IF ~written.ok THEN Fatal(m)
        ELSE Returned(SUCCESS, written.mem)

\* The guest's inputs: the name lies at NamePtr; the rest of the memory is
\* filled with one byte.
NamePtr == 0
OutPtr == 16
PropertyNames ==
    { LiteralProperties[i].name : i \in 1..Len(LiteralProperties) }
      \cup {MEDIADEVICES, KEYREPEAT} \cup UnknownNames
NamePtrs == {NamePtr, MemSize - 2}
OutPtrs == {OutPtr, MemSize - 8}
BufSizes == (0..MaxBufSize) \cup {18, 19, 32}
FillBytes == {0, 17}

PropInit ==
    /\ \E name \in PropertyNames, fill \in FillBytes :
          mem = [a \in Addr |->
                    IF a < NamePtr + Len(name) THEN name[a - NamePtr + 1]
                    ELSE IF a = NamePtr + Len(name) THEN 0
                    ELSE fill]
    /\ lastCall = NoCall
    /\ now = ZeroTime
    /\ tasks = << >>
    /\ invocations = << >>
    /\ conv = NoConv
    /\ table = << >>
    /\ reserved1 = NoMethod

\* The guest calls ordinal 29; the returned code is encoded by from_rust.
GetSystemProperty(p_id, p_out, buf_size) ==
    \E r \in {get_system_property(mem, p_id, p_out, buf_size)} :
        /\ mem' = r.mem
        /\ lastCall' = [op |-> "get_system_property",
                        args |-> <<p_id, p_out, buf_size>>,
                        ret |-> IF r.fatal THEN LEBytes(0) ELSE from_rust(r.ret),
                        fatal |-> r.fatal]
        /\ UNCHANGED <<now, tasks, invocations, conv, table, reserved1>>

PropNext ==
    \E p_id \in NamePtrs, p_out \in OutPtrs, buf_size \in BufSizes :
        GetSystemProperty(p_id, p_out, buf_size)

PropSpec == PropInit /\ [][PropNext]_vars

\* The names of the fixed property table, and the value of each but KEYREPEAT.
IsProperty(name) == PropertyMatch(name).code # INVALID

\* What C4 says of one call: name is the string at the name pointer before
\* the call, value the table's value for it, ret the returned code.
C4_Call(c, name, value, ret, before, after) ==
    LET p_out == c.args[2]
        buf_size == c.args[3]
    IN  InArena(p_out, buf_size) =>
          /\ ~c.fatal
          /\ ret \in {INVALID, NOTSUP, SHORTBUF, SUCCESS}
          /\ ret = INVALID <=> ~IsProperty(name)
          /\ ret = NOTSUP <=> name = KEYREPEAT
          /\ ret = SHORTBUF <=>
               (IsProperty(name) /\ name # KEYREPEAT /\ Len(value) + 1 > buf_size)
          /\ ret = SUCCESS =>
               after = [a \in Addr |->
                          IF a < p_out \/ a > p_out + Len(value) THEN before[a]
                          ELSE IF a = p_out + Len(value) THEN 0
                          ELSE value[a - p_out + 1]]
          /\ ret # SUCCESS => after = before
          /\ (name = ESN /\ buf_size = 32) =>
               /\ ret = SUCCESS
               /\ read_null_terminated_string(after, p_out).value = ESNValue
          /\ (name = ESN /\ buf_size = 1) => ret = SHORTBUF

\* C4: for a readable name and a writable destination of buf_size bytes,
\* get_system_property never fails fatally and returns INVALID for a name not
\* in the table, NOTSUP for KEYREPEAT, SHORTBUF when strlen(value)+1 > buf_size
\* and SUCCESS otherwise; it writes the value and a terminator at out_ptr in
\* the SUCCESS case and leaves guest memory unchanged in the other three.
C4_GetSystemProperty ==
    [][ lastCall'.op = "get_system_property" =>
          \A name \in {read_null_terminated_string(mem, lastCall'.args[1])} :
              name.ok =>
                \A value \in {PropertyMatch(name.value).result} :
                    C4_Call(lastCall', name.value, value, CastI32(lastCall'.ret),
                            mem, mem')
    ]_vars

C4_Witness ==
    /\ lastCall.op = "get_system_property"
    /\ lastCall.args = <<NamePtr, OutPtr, 32>>
    /\ CastI32(lastCall.ret) = SUCCESS
    /\ read_null_terminated_string(mem, NamePtr).value = ESN
    /\ read_null_terminated_string(mem, OutPtr).value = ESNValue

(***************************************************************************)
(* kernel.rs: timers.  WIPICTimer is #[repr(C, packed)]: its fields lie in *)
(* declaration order with no padding, 32 bytes in all.                     *)
(***************************************************************************)
MaxTimers == 2

SizeOfTimer == 32

\* A 64-bit value as its two 32-bit halves.  Within the bounds the low halves
\* stay far below 2^32, so a sum carries nothing into the high half.
U64(hi, lo) == [hi |-> hi, lo |-> lo]
U64Add(a, b) == [hi |-> a.hi + b.hi, lo |-> a.lo + b.lo]
U64Less(a, b) == a.hi < b.hi \/ (a.hi = b.hi /\ a.lo < b.lo)
U64LessEq(a, b) == a = b \/ U64Less(a, b)

SubSeq4(b, offset) == << b[offset + 1], b[offset + 2], b[offset + 3], b[offset + 4] >>

\* bytemuck::bytes_of(&WIPICTimer), with the callback put in the place of unk4.
WIPICTimer_bytes_misplaced(timer) ==
    LEBytes(timer.unk1) \o LEBytes(timer.unk2) \o LEBytes(timer.unk3)
      \o LEBytes(timer.time.lo) \o LEBytes(timer.time.hi)
      \o LEBytes(timer.param) \o LEBytes(timer.fn_callback) \o LEBytes(timer.unk4)

\* bytemuck::bytes_of(&WIPICTimer): the fields in the order of lines 18 to 25.
WIPICTimer_bytes(timer) ==
    LEBytes(timer.unk1) \o LEBytes(timer.unk2) \o LEBytes(timer.unk3)
      \o LEBytes(timer.time.lo) \o LEBytes(timer.time.hi)
      \o LEBytes(timer.param) \o LEBytes(timer.unk4) \o LEBytes(timer.fn_callback)

\* bytemuck::from_bytes::<WIPICTimer>
WIPICTimer_from_bytes(b) ==
    [unk1 |-> WordOf(SubSeq4(b, 0)),
     unk2 |-> WordOf(SubSeq4(b, 4)),
     unk3 |-> WordOf(SubSeq4(b, 8)),
     time |-> U64(WordOf(SubSeq4(b, 16)), WordOf(SubSeq4(b, 12))),
     param |-> WordOf(SubSeq4(b, 20)),
     unk4 |-> WordOf(SubSeq4(b, 24)),
     fn_callback |-> WordOf(SubSeq4(b, 28))]

\* wie_base::util::write_generic / read_generic for a WIPICTimer
write_generic(m, addr, timer) == write_bytes(m, addr, WIPICTimer_bytes(timer))

read_generic(m, addr) ==
    LET r == read_bytes(m, addr, SizeOfTimer)
    IN  IF r.ok THEN [ok |-> TRUE, value |-> WIPICTimer_from_bytes(r.value)]
        ELSE [ok |-> FALSE, value |-> << >>]

\* def_timer(context, ptr_timer, fn_callback)
def_timer(m, ptr_timer, fn_callback) ==
    LET timer == [unk1 |-> 0, unk2 |-> 0, unk3 |-> 0, time |-> U64(0, 0),
                  param |-> 0, unk4 |-> 0, fn_callback |-> fn_callback]
        written == write_generic(m, ptr_timer, timer)
    IN  IF ~written.ok THEN Fatal(m) ELSE Returned(0, written.mem)

\* set_timer with the two halves of the timeout exchanged.
set_timer_halves_swapped(m, ptr_timer, timeout_low, timeout_high, param) ==
    LET timer == read_generic(m, ptr_timer)
    IN  IF ~timer.ok THEN Fatal(m)
        ELSE Spawned(0, m, [timer |-> timer.value,
                            timeout |-> U64(timeout_low, timeout_high),
                            param |-> param])

\* set_timer with the high half of the timeout dropped.
set_timer_low_only(m, ptr_timer, timeout_low, timeout_high, param) ==
    LET timer == read_generic(m, ptr_timer)
    IN  IF ~timer.ok THEN Fatal(m)
        ELSE Spawned(0, m, [timer |-> timer.value,
                            timeout |-> U64(0, timeout_low),
                            param |-> param])

\* set_timer(context, ptr_timer, timeout_low, timeout_high, param): the
\* TimerCallback it spawns holds the record read, the timeout
\* ((timeout_high as u64) << 32) | (timeout_low as u64), and param.
set_timer(m, ptr_timer, timeout_low, timeout_high, param) ==
    LET timer == read_generic(m, ptr_timer)
    IN  IF ~timer.ok THEN Fatal(m)
        ELSE Spawned(0, m, [timer |-> timer.value,
                            timeout |-> U64(timeout_high, timeout_low),
                            param |-> param])

\* unset_timer left as a stub of the table.
unset_timer_unimplemented(m, a0) == Fatal(m)

\* unset_timer(_, a0)
unset_timer(m, a0) == Returned(0, m)

\* The instant a sleep of `timeout` begun at instant t ends.
SleepUntil(t, timeout) == U64Add(t, timeout)

\* Garbage the guest memory holds before anything is written to it.
TimerFill == 17
\* A pointer whose record would leave the arena.
BadTimerPtr == MemSize - 8
\* The clock moves by one unit or by 2^32 units.
ClockSteps == {U64(0, 1), U64(1, 0)}
Horizon == U64(1, 1)

TimerInit ==
    /\ mem = [a \in Addr |-> TimerFill]
    /\ now = ZeroTime
    /\ tasks = << >>
    /\ invocations = << >>
    /\ lastCall = NoCall
    /\ conv = NoConv
    /\ table = << >>
    /\ reserved1 = NoMethod

\* The guest calls ordinal 25.
DefTimer(ptr, callback) ==
    \E r \in {def_timer(mem, ptr, callback)} :
        /\ mem' = r.mem
        /\ lastCall' = [op |-> "def_timer", args |-> << >>, ret |-> r.ret,
                        fatal |-> r.fatal]
        /\ UNCHANGED <<now, tasks, invocations, conv, table, reserved1>>

\* The callback word that lies in the record at ptr.
StoredCallback(m, ptr) ==
    WordOf(<< m[ptr + 28], m[ptr + 29], m[ptr + 30], m[ptr + 31] >>)

\* The guest calls ordinal 26.  Context::spawn enqueues the task, and the task
\* runs to its first suspension, context.sleep(self.timeout), which ends once
\* the timeout has elapsed.  Beside the TimerCallback the task keeps, for
\* reference, what the call was given: the two timeout words, the parameter,
\* the callback word then stored at ptr, and the instant of the call.
SetTimer(ptr, timeout_low, timeout_high, param) ==
    /\ Len(tasks) < MaxTimers
    /\ \E r \in {set_timer(mem, ptr, timeout_low, timeout_high, param)} :
        /\ mem' = r.mem
        /\ tasks' = IF r.fatal THEN tasks
                    ELSE Append(tasks,
                           [pc |-> "sleeping", body |-> r.spawn[1],
                            wake |-> SleepUntil(now, r.spawn[1].timeout),
                            ptr |-> ptr, low |-> timeout_low, high |-> timeout_high,
                            p |-> param, stored |-> StoredCallback(mem, ptr),
                            armed |-> now])
        /\ lastCall' = [op |-> "set_timer", args |-> << >>, ret |-> r.ret,
                        fatal |-> r.fatal]
        /\ UNCHANGED <<now, invocations, conv, table, reserved1>>

\* The tasks that have not yet invoked their callback.
Pending == { i \in DOMAIN tasks : tasks[i].pc = "sleeping" }

\* The guest calls ordinal 27.  For reference the call keeps its argument and
\* the pending timers that were set on the pointer it names.
UnsetTimer(a0) ==
    \E r \in {unset_timer(mem, a0)} :
        /\ mem' = r.mem
        /\ lastCall' = [op |-> "unset_timer",
                        args |-> <<a0, { i \in Pending : tasks[i].ptr = a0 }>>,
                        ret |-> r.ret, fatal |-> r.fatal]
        /\ UNCHANGED <<now, tasks, invocations, conv, table, reserved1>>

\* The scheduler resumes the sleeping tasks whose time has come, earliest
\* first.
Due(i) ==
    /\ tasks[i].pc = "sleeping"
    /\ U64LessEq(tasks[i].wake, now)
    /\ \A j \in Pending : ~U64Less(tasks[j].wake, tasks[i].wake)

\* TimerCallback::call, from the sleep on:
\* context.call_method(self.timer.fn_callback, &[self.param]); the task ends
\* whether the callback returns or faults.
TaskWake(i) ==
    /\ Due(i)
    /\ invocations' = Append(invocations,
                         [task |-> i, fn |-> tasks[i].body.timer.fn_callback,
                          args |-> <<tasks[i].body.param>>,
                          low |-> tasks[i].low, high |-> tasks[i].high])
    /\ tasks' = [tasks EXCEPT ![i] = [pc |-> "done"]]
    /\ UNCHANGED <<mem, now, lastCall, conv, table, reserved1>>

\* The backend clock advances.  It runs on past the model's horizon only while
\* a sleeping task still waits for it.
Awaited(step) ==
    \E i \in Pending :
        IF step.hi > 0 THEN now.hi < tasks[i].wake.hi
        ELSE now.hi = tasks[i].wake.hi /\ now.lo < tasks[i].wake.lo

Tick(step) ==
    /\ \/ /\ now.hi + step.hi <= Horizon.hi
          /\ now.lo + step.lo <= Horizon.lo
       \/ Awaited(step)
    /\ now' = U64Add(now, step)
    /\ UNCHANGED <<mem, tasks, invocations, lastCall, conv, table, reserved1>>

\* The guest's inputs: timer records at two addresses, two callbacks.
TimerPtrs == {0, SizeOfTimer}
Callbacks == {4096, 16909060}
\* <<timeout_low, timeout_high>>: no delay, one unit, 2^32 units.
Timeouts == { <<0, 0>>, <<1, 0>>, <<0, 1>> }

\* Timers on records at two addresses.
TimerNext ==
    \/ \E ptr \in TimerPtrs, callback \in Callbacks : DefTimer(ptr, callback)
    \/ \E ptr \in TimerPtrs \cup {BadTimerPtr} : SetTimer(ptr, 1, 0, 7)
    \/ \E a0 \in TimerPtrs : UnsetTimer(a0)
    \/ \E i \in DOMAIN tasks : TaskWake(i)
    \/ Tick(U64(0, 1))

TimerSpec == TimerInit /\ [][TimerNext]_vars

\* Timers of every timeout on one record.
SchedNext ==
    \/ DefTimer(0, 4096)
    \/ \E t \in Timeouts : SetTimer(0, t[1], t[2], 7)
    \/ SetTimer(BadTimerPtr, 0, 0, 7)
    \/ UnsetTimer(0)
    \/ \E i \in DOMAIN tasks : TaskWake(i)
    \/ \E step \in ClockSteps : Tick(step)

SchedSpec == TimerInit /\ [][SchedNext]_vars

\* The scheduler runs a due task and the clock keeps moving.
SchedFairSpec ==
    /\ SchedSpec
    /\ WF_vars(\E i \in DOMAIN tasks : TaskWake(i))
    /\ WF_vars(\E step \in ClockSteps : Tick(step))

(***************************************************************************)
(* What the claims say of timers.  A timer's delay is read from the words  *)
(* its set_timer call was given: (timeout_hi << 32) | timeout_lo.          *)
(***************************************************************************)
ClaimedDelay(low, high) == [hi |-> high, lo |-> low]
ClaimedExpiry(t) == U64Add(t.armed, ClaimedDelay(t.low, t.high))
Count(i) == Cardinality({ k \in DOMAIN invocations : invocations[k].task = i })
Fires(i) == i \in DOMAIN tasks /\ tasks[i].pc = "sleeping" /\ tasks'[i].pc = "done"

\* Each spawned task has invoked its callback once when it is done and never
\* before, and nothing else invokes a callback.
OncePerTask ==
    /\ \A i \in DOMAIN tasks : Count(i) = IF tasks[i].pc = "done" THEN 1 ELSE 0
    /\ \A k \in DOMAIN invocations : invocations[k].task \in DOMAIN tasks

\* When a task fires, the delay its call asked for has elapsed since the call,
\* and it invokes the callback word that was stored at ptr with the one
\* argument param.
FiresAsAsked(i) ==
    Fires(i) =>
        /\ U64LessEq(ClaimedExpiry(tasks[i]), now)
        /\ Len(invocations') = Len(invocations) + 1
        /\ invocations'[Len(invocations')].task = i
        /\ invocations'[Len(invocations')].fn = tasks[i].stored
        /\ invocations'[Len(invocations')].args = <<tasks[i].p>>

\* C2: each successful set_timer(ptr, timeout_lo, timeout_hi, param) causes
\* exactly one invocation of the callback stored at ptr, with the single
\* argument param, no sooner than (timeout_hi << 32) | timeout_lo after the
\* call; the task then ends and never invokes the callback again.  A
\* set_timer that fails spawns nothing.
C2_SetTimerFiresOnce ==
    /\ [] OncePerTask
    /\ [][ /\ \A i \in DOMAIN tasks : FiresAsAsked(i)
           /\ invocations' # invocations => \E i \in DOMAIN tasks : Fires(i)
           /\ (lastCall' # lastCall /\ lastCall'.op = "set_timer") =>
                 Len(tasks') = Len(tasks) + (IF lastCall'.fatal THEN 0 ELSE 1)
           /\ \A i \in DOMAIN tasks : tasks[i].pc = "done" => tasks'[i].pc = "done"
         ]_vars
    /\ \A i \in 1..MaxTimers :
          [](Len(tasks) >= i =>
                <>(Len(tasks) >= i /\ tasks[i].pc = "done" /\ Count(i) = 1))

C2_Witness ==
    /\ Len(invocations) = 2
    /\ tasks[1].pc = "done"
    /\ \E k \in DOMAIN invocations :
          /\ invocations[k].task = 1
          /\ invocations[k].fn = 4096
          /\ invocations[k].args = <<7>>
          /\ invocations[k].high = 1
    /\ now.hi >= 1

\* The delay of the timer of task i, pending or done.
DelayOf(i) ==
    IF tasks[i].pc = "done"
    THEN LET k == CHOOSE n \in DOMAIN invocations : invocations[n].task = i
         IN ClaimedDelay(invocations[k].low, invocations[k].high)
    ELSE ClaimedDelay(tasks[i].low, tasks[i].high)
FiredAt(i) == CHOOSE n \in DOMAIN invocations : invocations[n].task = i

C8_UnsetTimerNoEffect ==
    /\ [][ (lastCall' # lastCall /\ lastCall'.op = "unset_timer") =>
              /\ ~lastCall'.fatal
              /\ lastCall'.ret = 0
              /\ mem' = mem
              /\ tasks' = tasks
              /\ invocations' = invocations
              /\ now' = now
         ]_vars
    /\ [][ \A i \in DOMAIN tasks : FiresAsAsked(i) ]_vars
    /\ [] OncePerTask
    /\ [](lastCall.op = "unset_timer" =>
            \A i \in lastCall.args[2] : tasks[i].pc \in {"sleeping", "done"})

\* A timer that was pending on the pointer unset_timer named has fired since.
C8_Witness ==
    /\ lastCall.op = "unset_timer"
    /\ \E i \in lastCall.args[2] : tasks[i].pc = "done" /\ Count(i) = 1

\* The TimerRecord of the documented layout: 3 reserved words, a 64-bit time
\* value, a parameter word and a reserved word, all zero, then the callback
\* word.
RecordLayout(callback) ==
    [i \in 1..32 |-> IF i <= 28 THEN 0 ELSE LEBytes(callback)[i - 28]]
RecordAt(m, ptr) == [i \in 1..32 |-> m[ptr + i - 1]]

\* C10: define_timer(ptr, callback) writes one TimerRecord at ptr, every field
\* zero but the last word, which is the callback; it spawns no task, so
\* without a set_timer no callback is invoked; and a later set_timer on the
\* same ptr reads back exactly that callback word.
C10_DefTimerRecord ==
    /\ [][ \A ptr \in TimerPtrs, callback \in Callbacks :
             DefTimer(ptr, callback) =>
               /\ ~lastCall'.fatal
               /\ mem' = [a \in Addr |->
                            IF a >= ptr /\ a < ptr + 32
                            THEN RecordLayout(callback)[a - ptr + 1] ELSE mem[a]]
               /\ tasks' = tasks
               /\ invocations' = invocations
         ]_vars
    /\ [](tasks = << >> => invocations = << >>)
    /\ [][ \A ptr \in TimerPtrs, callback \in Callbacks :
             (SetTimer(ptr, 1, 0, 7) /\ RecordAt(mem, ptr) = RecordLayout(callback)) =>
               /\ Len(tasks') = Len(tasks) + 1
               /\ tasks'[Len(tasks')].body.timer =
                    [unk1 |-> 0, unk2 |-> 0, unk3 |-> 0, time |-> U64(0, 0),
                     param |-> 0, unk4 |-> 0, fn_callback |-> callback]
         ]_vars

C10_Witness ==
    /\ RecordAt(mem, 32) = RecordLayout(16909060)
    /\ \E i \in DOMAIN tasks :
          /\ tasks[i].pc = "sleeping"
          /\ tasks[i].ptr = 32
          /\ tasks[i].body.timer.fn_callback = 16909060

(***************************************************************************)
(* kernel.rs: get_resource.  The resource store and the memory arena are   *)
(* the backend's; a store of three resources and an arena of two live      *)
(* blocks stand for them.                                                  *)
(***************************************************************************)
MaxResBuf == 6

\* backend.resource(): the resources by id, from id 0.
ResourceStore == << <<222, 173, 190>>, << >>, <<1, 2, 3, 4, 5>> >>
ResourceIds == 0..(Len(ResourceStore) - 1)
resource_size(id) == Len(ResourceStore[id + 1])
resource_data(id) == ResourceStore[id + 1]

\* Context::data_ptr(handle): the address of a live block; fails for a handle
\* the arena does not know.
LiveBlocks == { [handle |-> 1001, addr |-> 4], [handle |-> 1002, addr |-> 40] }
StaleHandle == 1003
data_ptr(handle) ==
    IF \E b \in LiveBlocks : b.handle = handle
    THEN [ok |-> TRUE, value |-> (CHOOSE b \in LiveBlocks : b.handle = handle).addr]
    ELSE [ok |-> FALSE, value |-> 0]

\* get_resource that refuses a buffer of exactly the resource's size.
get_resource_refuses_exact_fit(m, id, buf, buf_size) ==
    LET size == resource_size(id)
        ptr == data_ptr(buf)
        written == write_bytes(m, ptr.value, resource_data(id))
    IN  IF size >= buf_size THEN Returned(-1, m)
        ELSE IF ~ptr.ok THEN Fatal(m)
        ELSE IF ~written.ok THEN Fatal(m)
        ELSE Returned(0, written.mem)

\* get_resource(context, id, buf, buf_size)
get_resource(m, id, buf, buf_size) ==
    LET size == resource_size(id)
        ptr == data_ptr(buf)
        written == write_bytes(m, ptr.value, resource_data(id))
    IN  IF size > buf_size THEN Returned(-1, m)
        ELSE IF ~ptr.ok THEN Fatal(m)
        ELSE IF ~written.ok THEN Fatal(m)
        ELSE Returned(0, written.mem)

ResInit ==
    /\ \E fill \in FillBytes : mem = [a \in Addr |-> fill]
    /\ lastCall = NoCall
    /\ now = ZeroTime
    /\ tasks = << >>
    /\ invocations = << >>
    /\ conv = NoConv
    /\ table = << >>
    /\ reserved1 = NoMethod

\* The guest calls ordinal 32; the returned i32 is carried by a word.
GetResource(id, buf, buf_size) ==
    \E r \in {get_resource(mem, id, buf, buf_size)} :
        /\ mem' = r.mem
        /\ lastCall' = [op |-> "get_resource", args |-> <<id, buf, buf_size>>,
                        ret |-> CastWord(r.ret), fatal |-> r.fatal]
        /\ UNCHANGED <<now, tasks, invocations, conv, table, reserved1>>

ResNext ==
    \E id \in ResourceIds, b \in LiveBlocks \cup {[handle |-> StaleHandle, addr |-> 0]},
       buf_size \in 0..MaxResBuf :
        GetResource(id, b.handle, buf_size)

ResSpec == ResInit /\ [][ResNext]_vars

\* C9: read_resource(id, buf, buf_size) returns -1 and writes nothing when the
\* resource is larger than buf_size; otherwise, for a live buffer, it writes
\* exactly the resource's bytes at the buffer's address and returns 0; a
\* result it returns is never any other value.
C9_ReadResource ==
    [][ lastCall'.op = "get_resource" =>
          \A id \in {lastCall'.args[1]}, buf \in {lastCall'.args[2]},
             buf_size \in {lastCall'.args[3]}, ret \in {CastI32(lastCall'.ret)} :
              /\ Len(ResourceStore[id + 1]) > buf_size =>
                    /\ ~lastCall'.fatal
                    /\ ret = -1
                    /\ mem' = mem
              /\ (Len(ResourceStore[id + 1]) <= buf_size /\ buf # StaleHandle) =>
                    /\ ~lastCall'.fatal
                    /\ ret = 0
                    /\ \E b \in LiveBlocks :
                          /\ b.handle = buf
                          /\ mem' = [a \in Addr |->
                                       IF a >= b.addr /\ a < b.addr + Len(ResourceStore[id + 1])
                                       THEN ResourceStore[id + 1][a - b.addr + 1]
                                       ELSE mem[a]]
              /\ ~lastCall'.fatal => ret \in {-1, 0}
              /\ lastCall'.fatal => mem' = mem
    ]_vars

\* A resource of five bytes read into a buffer of exactly five.
C9_Witness ==
    /\ lastCall.op = "get_resource"
    /\ lastCall.args = <<2, 1001, 5>>
    /\ CastI32(lastCall.ret) = 0
    /\ [i \in 1..5 |-> mem[4 + i - 1]] = <<1, 2, 3, 4, 5>>

====
